---- MODULE Spec2Model ----
(***************************************************************************)
(* earningsfeed-node: the request executor (EarningsFeed._request), the    *)
(* error taxonomy (errors.ts) and the auto-pagination generators (iter /   *)
(* iterSearch of the four resources), as a state machine.                  *)
(*                                                                         *)
(* JavaScript values are tagged records; a JavaScript string is a sequence *)
(* of text tokens, so that template literals and String(n) are real        *)
(* concatenations and conversions.                                         *)
(***************************************************************************)
EXTENDS Integers, Sequences, FiniteSets, TLC

VARIABLES calls, gen, pending, delivered, client, parked

vars == <<calls, gen, pending, delivered, client, parked>>

----------------------------------------------------------------------------
(* Bounds of the model. *)

\* Calls (call frames of _request) the model holds; a traversal uses one per page.
MaxCalls == 3
\* Items on one page.
MaxItems == 2
\* next() calls the consumer has made that are not answered yet.
MaxPending == 1
\* The configured timeout (this.timeout), in clock ticks.
Timeout == 2
\* Length of an X-RateLimit-Reset header value, in characters.
MaxHdrLen == 2

CallIds == 1..MaxCalls

----------------------------------------------------------------------------
(* JavaScript values. *)

Undefined == [t |-> "undefined"]
Null == [t |-> "null"]
NaN == [t |-> "NaN"]
Str(s) == [t |-> "string", v |-> s]
Num(n) == [t |-> "number", v |-> n]
Arr(a) == [t |-> "array", v |-> a]
Bool(b) == [t |-> "boolean", v |-> b]

\* x ?? y
Coalesce(x, y) == IF x.t \in {"undefined", "null"} THEN y ELSE x

\* Property read o.k of an object held as a function from its keys.
Get(o, k) == IF k \in DOMAIN o THEN o[k] ELSE Undefined

Digits == <<"0", "1", "2", "3", "4", "5", "6", "7", "8", "9">>
IsDigit(ch) == \E d \in 1..10 : Digits[d] = ch
DigitVal(ch) == (CHOOSE d \in 1..10 : Digits[d] = ch) - 1

\* The decimal numeral of a natural number, one token per digit.
RECURSIVE ToDecimal(_)
ToDecimal(n) ==
  IF n < 10 THEN <<Digits[n + 1]>>
  ELSE ToDecimal(n \div 10) \o <<Digits[(n % 10) + 1]>>

RECURSIVE JoinWith(_, _)
JoinWith(a, sep) ==
  IF a = <<>> THEN <<>>
  ELSE IF Len(a) = 1 THEN a[1]
  ELSE a[1] \o <<sep>> \o JoinWith(Tail(a), sep)

\* String(value) of part_000:85, on the values a query parameter can hold.
String(x) ==
  CASE x.t = "string" -> x.v
    [] x.t = "number" -> IF x.v < 0 THEN <<"-">> \o ToDecimal(-x.v) ELSE ToDecimal(x.v)
    [] x.t = "boolean" -> IF x.v THEN <<"true">> ELSE <<"false">>
    [] x.t = "array" -> JoinWith(x.v, ",")
    [] x.t = "null" -> <<"null">>
    [] x.t = "NaN" -> <<"NaN">>
    [] OTHER -> <<"undefined">>

\* The longest prefix of s made of digits.
RECURSIVE DigitPrefix(_)
DigitPrefix(s) ==
  IF s = <<>> \/ ~IsDigit(Head(s)) THEN <<>>
  ELSE <<Head(s)>> \o DigitPrefix(Tail(s))

RECURSIVE DigitsValue(_, _)
DigitsValue(s, acc) ==
  IF s = <<>> THEN acc ELSE DigitsValue(Tail(s), acc * 10 + DigitVal(Head(s)))

\* parseInt(s, 10): an optional sign, then the longest run of digits; NaN when
\* there is no digit. (Header values carry no surrounding white space.)
ParseInt(s) ==
  LET neg == s # <<>> /\ Head(s) = "-"
      signed == s # <<>> /\ Head(s) \in {"-", "+"}
      body == DigitPrefix(IF signed THEN Tail(s) ELSE s)
  IN IF body = <<>> THEN NaN
     ELSE Num(IF neg THEN 0 - DigitsValue(body, 0) ELSE DigitsValue(body, 0))

\* Whether the string `part` occurs in the string `whole`.
Contains(whole, part) ==
  \E i \in 1..(Len(whole) + 1) :
    /\ i + Len(part) - 1 <= Len(whole)
    /\ SubSeq(whole, i, i + Len(part) - 1) = part

SeqsUpTo(S, n) == UNION {[1..k -> S] : k \in 0..n}

----------------------------------------------------------------------------
(* errors.ts: the error classes.  A thrown value is a record; `name` is   *)
(* the class (what instanceof and error.name see).                         *)

\* A default parameter value applies when the argument is undefined.
DefaultArg(x, d) == IF x.t = "undefined" THEN d ELSE x

MkError(name, message, statusCode, code, resetAt) ==
  [name |-> name, message |-> String(message), statusCode |-> statusCode,
   code |-> code, resetAt |-> resetAt]

AuthenticationError(message) ==
  MkError("AuthenticationError",
          DefaultArg(message, Str(<<"Invalid or missing API key">>)),
          Undefined, Undefined, Undefined)

RateLimitError(message, resetAt) ==
  MkError("RateLimitError", DefaultArg(message, Str(<<"Rate limit exceeded">>)),
          Undefined, Undefined, resetAt)

NotFoundError(message) ==
  MkError("NotFoundError", DefaultArg(message, Str(<<"Resource not found">>)),
          Undefined, Undefined, Undefined)

ValidationError(message) ==
  MkError("ValidationError",
          DefaultArg(message, Str(<<"Invalid request parameters">>)),
          Undefined, Undefined, Undefined)

APIError(message, statusCode, code) ==
  MkError("APIError", message, statusCode, code, Undefined)

\* Errors of the runtime, not of the library: response.json() on a body that is
\* not JSON, a property read on null, fetch rejecting on a network failure, and
\* fetch rejecting because its signal was aborted.
SyntaxError == MkError("SyntaxError", Str(<<"Unexpected token">>),
                       Undefined, Undefined, Undefined)
TypeError == MkError("TypeError", Str(<<"Cannot read properties of null">>),
                     Undefined, Undefined, Undefined)
NetworkFailure(cause) == MkError("TypeError", Str(<<"fetch failed: ", cause>>),
                                 Undefined, Undefined, Undefined)
AbortError == MkError("AbortError", Str(<<"This operation was aborted">>),
                      Undefined, Undefined, Undefined)

----------------------------------------------------------------------------
(* The resource shims: list / search / get.  An object literal is the     *)
(* sequence of its <<key, value>> entries, in source order.                *)

FilingsApiParams(params) ==
  << <<"limit", Coalesce(Get(params, "limit"), Num(25))>>,
     <<"cursor", Get(params, "cursor")>>,
     <<"forms", IF Get(params, "forms").t = "array"
                  THEN Str(JoinWith(Get(params, "forms").v, ","))
                  ELSE Get(params, "forms")>>,
     <<"cik", Get(params, "cik")>>,
     <<"ticker", Get(params, "ticker")>>,
     <<"status", Coalesce(Get(params, "status"), Str(<<"all">>))>>,
     <<"startDate", Get(params, "startDate")>>,
     <<"endDate", Get(params, "endDate")>>,
     <<"q", Get(params, "q")>> >>

\* InsiderApiParams with personCik passed on under its own name.
InsiderApiParams_PersonCik(params) ==
  << <<"limit", Coalesce(Get(params, "limit"), Num(25))>>,
     <<"cursor", Get(params, "cursor")>>,
     <<"cik", Get(params, "cik")>>,
     <<"ticker", Get(params, "ticker")>>,
     <<"personCik", Get(params, "personCik")>>,
     <<"direction", Get(params, "direction")>>,
     <<"codes", IF Get(params, "codes").t = "array"
                  THEN Str(JoinWith(Get(params, "codes").v, ","))
                  ELSE Get(params, "codes")>>,
     <<"derivative", Get(params, "derivative")>>,
     <<"minValue", Get(params, "minValue")>>,
     <<"startDate", Get(params, "startDate")>>,
     <<"endDate", Get(params, "endDate")>> >>

InsiderApiParams(params) ==
  << <<"limit", Coalesce(Get(params, "limit"), Num(25))>>,
     <<"cursor", Get(params, "cursor")>>,
     <<"cik", Get(params, "cik")>>,
     <<"ticker", Get(params, "ticker")>>,
     <<"insiderCik", Get(params, "personCik")>>,
     <<"direction", Get(params, "direction")>>,
     <<"codes", IF Get(params, "codes").t = "array"
                  THEN Str(JoinWith(Get(params, "codes").v, ","))
                  ELSE Get(params, "codes")>>,
     <<"derivative", Get(params, "derivative")>>,
     <<"minValue", Get(params, "minValue")>>,
     <<"startDate", Get(params, "startDate")>>,
     <<"endDate", Get(params, "endDate")>> >>

InstitutionalApiParams(params) ==
  << <<"limit", Coalesce(Get(params, "limit"), Num(25))>>,
     <<"cursor", Get(params, "cursor")>>,
     <<"companyCik", Get(params, "cik")>>,
     <<"ticker", Get(params, "ticker")>>,
     <<"cusip", Get(params, "cusip")>>,
     <<"managerCik", Get(params, "managerCik")>>,
     <<"reportPeriod", Get(params, "reportPeriod")>>,
     <<"putCall", Get(params, "putCall")>>,
     <<"minValue", Get(params, "minValue")>> >>

CompaniesApiParams(params) ==
  << <<"q", Get(params, "q")>>,
     <<"ticker", Get(params, "ticker")>>,
     <<"sicCode", Get(params, "sicCode")>>,
     <<"state", Get(params, "state")>>,
     <<"limit", Coalesce(Get(params, "limit"), Num(25))>>,
     <<"cursor", Get(params, "cursor")>> >>

Resources == {"filings", "insider", "institutional", "companies"}

\* The apiParams object list (search, for companies) hands to _request.
ApiParams(resource, params) ==
  CASE resource = "filings" -> FilingsApiParams(params)
    [] resource = "insider" -> InsiderApiParams(params)
    [] resource = "institutional" -> InstitutionalApiParams(params)
    [] OTHER -> CompaniesApiParams(params)

\* The fixed path of list (search, for companies).
ListPath(resource) ==
  CASE resource = "filings" -> <<"/api/v1/filings">>
    [] resource = "insider" -> <<"/api/v1/insider/transactions">>
    [] resource = "institutional" -> <<"/api/v1/institutional/holdings">>
    [] OTHER -> <<"/api/v1/companies/search">>

\* The path of get(id): a template literal ending in the id.
GetPath(resource, id) ==
  IF resource = "filings" THEN <<"/api/v1/filings/">> \o String(id)
  ELSE <<"/api/v1/companies/">> \o String(id)

----------------------------------------------------------------------------
(* EarningsFeed._request: one call frame per call id.                      *)
(*   pc      unused | fetch (awaiting fetch) | json400 | jsonErr | jsonOk  *)
(*           (awaiting response.json() in that branch) | settled           *)
(*   timer   unset | pending | cleared | fired   (timeoutId)               *)
(*   args    the parameter object list / search was called with            *)
(*   headers the headers handed to fetch                                   *)
(*   fetches how many times the call has invoked fetch                     *)
(*   cause   why fetch or response.json() rejected, when the network failed *)
(*   elapsed clock ticks since the call started, stopped once it settles   *)

Unparseable == [t |-> "unparseable"]
\* response.json() rejecting because the signal was aborted while it read.
Aborted == [t |-> "aborted"]
\* response.json() rejecting because the connection failed while it read.
Broken(cause) == [t |-> "broken", cause |-> cause]
\* An object literal handed to _request, as its entries.
Entries(e) == [t |-> "entries", v |-> e]
Obj(fields) == [t |-> "object", v |-> fields]
EmptyObject == [k \in {} |-> Undefined]

\* "0.1.0", a token per digit and dot.
VERSION == <<"0", ".", "1", ".", "0">>

\* part_000:62-72: the client the constructor leaves, as far as requests read it.
EarningsFeed(apiKey) == [apiKey |-> apiKey]

\* Headers with the credential sent bare, without the Bearer scheme.
Headers_BareKey(apiKey) ==
  ("Authorization" :> String(apiKey))
    @@ ("User-Agent" :> (<<"earningsfeed-node/">> \o VERSION))
    @@ ("Accept" :> <<"application/json">>)

\* part_000:97-101: the headers of every request.
Headers(apiKey) ==
  ("Authorization" :> (<<"Bearer ">> \o String(apiKey)))
    @@ ("User-Agent" :> (<<"earningsfeed-node/">> \o VERSION))
    @@ ("Accept" :> <<"application/json">>)

Unused ==
  [pc |-> "unused", by |-> "none", path |-> <<>>, query |-> <<>>,
   args |-> Undefined,
   headers |-> EmptyObject, fetches |-> 0, cause |-> "none",
   timer |-> "unset", elapsed |-> 0, status |-> 0, resetHdr |-> Null,
   bodyRead |-> FALSE, body |-> Undefined, outcome |-> Undefined]

\* url.searchParams.set(key, value): replace the key's entry, or append one.
SearchParamsSet(query, key, value) ==
  IF \E i \in 1..Len(query) : query[i][1] = key
    THEN [i \in 1..Len(query) |->
            IF query[i][1] = key THEN <<key, value>> ELSE query[i]]
    ELSE Append(query, <<key, value>>)

\* BuildQuery leaving out undefined only: if (value !== undefined)
RECURSIVE BuildQuery_KeepsNull(_, _)
BuildQuery_KeepsNull(entries, query) ==
  IF entries = <<>> THEN query
  ELSE LET key == Head(entries)[1]
           value == Head(entries)[2]
       IN BuildQuery_KeepsNull(Tail(entries),
                               IF value.t # "undefined"
                                 THEN SearchParamsSet(query, key, String(value))
                                 ELSE query)

\* part_000:82-88: the query string built from the entries of params.
RECURSIVE BuildQuery(_, _)
BuildQuery(entries, query) ==
  IF entries = <<>> THEN query
  ELSE LET key == Head(entries)[1]
           value == Head(entries)[2]
       IN BuildQuery(Tail(entries),
                     IF value.t # "undefined" /\ value.t # "null"
                       THEN SearchParamsSet(query, key, String(value))
                       ELSE query)

\* A value used as a condition.
Truthy(x) ==
  CASE x.t = "string" -> x.v # <<>>
    [] x.t = "number" -> x.v # 0
    [] x.t = "boolean" -> x.v
    [] x.t \in {"undefined", "null", "NaN"} -> FALSE
    [] OTHER -> TRUE

\* ResetAtOf with parseInt forgotten: the header text itself is handed over.
ResetAtOf_Header(resetAt) == IF Truthy(resetAt) THEN resetAt ELSE Undefined

\* part_000:120: the second argument of new RateLimitError.
ResetAtOf(resetAt) == IF Truthy(resetAt) THEN ParseInt(resetAt.v) ELSE Undefined

\* part_000:108-110
Throw401 == AuthenticationError(Undefined)

\* Throw404 with the message left to the class default.
Throw404_NoPath(path) == NotFoundError(Undefined)

\* part_000:112-114
Throw404(path) == NotFoundError(Str(<<"Resource not found: ">> \o path))

\* part_000:116-122
Throw429(resetHdr) ==
  RateLimitError(Str(<<"Rate limit exceeded">>), ResetAtOf(resetHdr))

\* Throw400 reading the field `message` of the body instead of `error`.
Throw400_WrongField(data) ==
  IF data.t = "unparseable" THEN SyntaxError
  ELSE IF data.t = "aborted" THEN AbortError
  ELSE IF data.t = "broken" THEN NetworkFailure(data.cause)
  ELSE IF data.t = "null" THEN TypeError
  ELSE ValidationError(Coalesce(Get(data.v, "message"), Str(<<"Invalid request">>)))

\* Throw400 with the fallback of the catch-all branch: a body that is not JSON
\* gives the ValidationError with the default message.
Throw400_Fallback(data) ==
  IF data.t = "unparseable" THEN ValidationError(Str(<<"Invalid request">>))
  ELSE IF data.t = "aborted" THEN AbortError
  ELSE IF data.t = "broken" THEN NetworkFailure(data.cause)
  ELSE IF data.t = "null" THEN TypeError
  ELSE ValidationError(Coalesce(Get(data.v, "error"), Str(<<"Invalid request">>)))

\* part_000:124-127: what the 400 branch throws once response.json() settled
\* with `data` (Unparseable: json() rejected).
Throw400(data) ==
  IF data.t = "unparseable" THEN SyntaxError
  ELSE IF data.t = "aborted" THEN AbortError
  ELSE IF data.t = "broken" THEN NetworkFailure(data.cause)
  ELSE IF data.t = "null" THEN TypeError
  ELSE ValidationError(Coalesce(Get(data.v, "error"), Str(<<"Invalid request">>)))

\* ThrowOther with `if (e instanceof APIError) throw e` missing: the inner catch
\* replaces the APIError it caught.
ThrowOther_Swallow(status, data) ==
  APIError(Str(<<"HTTP ">> \o String(Num(status))), Num(status), Undefined)

\* part_000:129-141: what the catch-all branch throws, its inner try/catch
\* included.
ThrowOther(status, data) ==
  LET e == IF data.t = "unparseable" THEN SyntaxError
           ELSE IF data.t = "aborted" THEN AbortError
           ELSE IF data.t = "broken" THEN NetworkFailure(data.cause)
           ELSE IF data.t = "null" THEN TypeError
           ELSE APIError(Coalesce(Get(data.v, "error"), Str(<<"Unknown error">>)),
                         Num(status), Get(data.v, "code"))
  IN IF e.name = "APIError" THEN e
     ELSE APIError(Str(<<"HTTP ">> \o String(Num(status))), Num(status), Undefined)

\* part_000:144-152: what the outer catch rethrows.
Catch(error) ==
  IF error.name = "AbortError"
    THEN APIError(Str(<<"Request timeout">>), Num(408), Undefined)
    ELSE error

\* clearTimeout(timeoutId)
ClearTimeout(timer) == IF timer = "pending" THEN "cleared" ELSE timer

\* Rejected with the clearTimeout of the catch block missing.
Rejected_NoClear(call, error) ==
  [call EXCEPT !.pc = "settled",
               !.outcome = [ok |-> FALSE, error |-> Catch(error)]]

\* part_000:144-152: the outer catch clears the timer and rethrows.
Rejected(call, error) ==
  [call EXCEPT !.pc = "settled", !.timer = ClearTimeout(@),
               !.outcome = [ok |-> FALSE, error |-> Catch(error)]]

Resolved(call, value) ==
  [call EXCEPT !.pc = "settled", !.outcome = [ok |-> TRUE, value |-> value]]

\* part_000:78-103: build the URL, arm the timer, issue fetch.
Started(by, path, params) ==
  [Unused EXCEPT !.pc = "fetch", !.by = by, !.path = path,
                 !.query = IF params.t = "undefined" THEN <<>>
                           ELSE BuildQuery(params.v, <<>>),
                 !.headers = Headers(client.apiKey),
                 !.fetches = 1,
                 !.timer = "pending"]

\* Branch with the catch-all test placed before the test for 401.
Branch_CatchAllFirst(status) ==
  IF status = 404 THEN "404"
  ELSE IF status = 429 THEN "429"
  ELSE IF status = 400 THEN "json400"
  ELSE IF status >= 400 THEN "jsonErr"
  ELSE "jsonOk"

\* part_000:108-143: the branch a response status takes, the first test that
\* holds deciding.
Branch(status) ==
  IF status = 401 THEN "401"
  ELSE IF status = 404 THEN "404"
  ELSE IF status = 429 THEN "429"
  ELSE IF status = 400 THEN "json400"
  ELSE IF status >= 400 THEN "jsonErr"
  ELSE "jsonOk"

\* Dispatch with a retry: after a 429 or a 5xx the request is issued once more.
Dispatch_RetryOnce(call, status, resetHdr) ==
  LET got == [call EXCEPT !.timer = ClearTimeout(@), !.status = status,
                          !.resetHdr = resetHdr]
      branch == Branch(status)
  IN IF (status = 429 \/ status >= 500) /\ call.fetches < 2
       THEN [call EXCEPT !.fetches = @ + 1]
     ELSE CASE branch = "401" -> Rejected(got, Throw401)
            [] branch = "404" -> Rejected(got, Throw404(call.path))
            [] branch = "429" -> Rejected(got, Throw429(resetHdr))
            [] OTHER -> [got EXCEPT !.pc = branch]

\* part_000:105-143, up to the next await: fetch resolved with a response.
Dispatch(call, status, resetHdr) ==
  LET got == [call EXCEPT !.timer = ClearTimeout(@), !.status = status,
                          !.resetHdr = resetHdr]
      branch == Branch(status)
  IN CASE branch = "401" -> Rejected(got, Throw401)
       [] branch = "404" -> Rejected(got, Throw404(call.path))
       [] branch = "429" -> Rejected(got, Throw429(resetHdr))
       [] OTHER -> [got EXCEPT !.pc = branch]

\* response.json() settled with `data` (Unparseable, Aborted, Broken: it
\* rejected).
AfterJson(call, data) ==
  LET got == [call EXCEPT !.bodyRead = TRUE, !.body = data,
                          !.cause = IF data.t = "broken" THEN data.cause ELSE @]
  IN CASE call.pc = "json400" -> Rejected(got, Throw400(data))
       [] call.pc = "jsonErr" -> Rejected(got, ThrowOther(call.status, data))
       [] OTHER -> IF data.t = "unparseable" THEN Rejected(got, SyntaxError)
                   ELSE IF data.t = "aborted" THEN Rejected(got, AbortError)
                   ELSE IF data.t = "broken"
                     THEN Rejected(got, NetworkFailure(data.cause))
                   ELSE Resolved(got, data)

InFlight(c) == calls[c].pc \notin {"unused", "settled"}

Traversal == <<gen, pending, delivered>>

\* The server's status line and headers arrive before the timer is due.
FetchResponds(c, status, resetHdr) ==
  /\ calls[c].pc = "fetch"
  /\ calls[c].elapsed < Timeout
  /\ calls' = [calls EXCEPT ![c] = Dispatch(@, status, resetHdr)]
  /\ UNCHANGED <<Traversal, client, parked>>

\* fetch rejects: connection reset, DNS failure.
FetchFails(c, cause) ==
  /\ calls[c].pc = "fetch"
  /\ calls[c].elapsed < Timeout
  /\ calls' = [calls EXCEPT ![c] =
                 Rejected([@ EXCEPT !.cause = cause], NetworkFailure(cause))]
  /\ UNCHANGED <<Traversal, client, parked>>

\* The clock ticks all calls so far have waited, summed.
RECURSIVE SumElapsed(_)
SumElapsed(n) == IF n = 0 THEN 0 ELSE calls[n].elapsed + SumElapsed(n - 1)

\* TimerFires with one deadline for all the calls made so far: the timer is due
\* once their waits add up to the timeout.
TimerFires_Aggregate(c) ==
  /\ InFlight(c)
  /\ calls[c].timer = "pending"
  /\ SumElapsed(MaxCalls) >= Timeout
  /\ calls' = [calls EXCEPT ![c] =
                 IF @.pc = "fetch" THEN Rejected([@ EXCEPT !.timer = "fired"], AbortError)
                 ELSE AfterJson([@ EXCEPT !.timer = "fired"], Aborted)]
  /\ UNCHANGED <<Traversal, client, parked>>

\* TimerFires with one AbortController kept on the client and shared by all
\* calls: abort() rejects every fetch that is pending.
TimerFires_SharedController(c) ==
  /\ InFlight(c)
  /\ calls[c].timer = "pending"
  /\ calls[c].elapsed >= Timeout
  /\ calls' = [d \in CallIds |->
                 IF d = c
                   THEN IF calls[d].pc = "fetch"
                          THEN Rejected([calls[d] EXCEPT !.timer = "fired"], AbortError)
                          ELSE AfterJson([calls[d] EXCEPT !.timer = "fired"], Aborted)
                 ELSE IF calls[d].pc = "fetch" THEN Rejected(calls[d], AbortError)
                 ELSE calls[d]]
  /\ UNCHANGED <<Traversal, client, parked>>

\* part_000:92: the timer fires, controller.abort() makes fetch reject.
TimerFires(c) ==
  /\ InFlight(c)
  /\ calls[c].timer = "pending"
  /\ calls[c].elapsed >= Timeout
  /\ calls' = [calls EXCEPT ![c] =
                 IF @.pc = "fetch" THEN Rejected([@ EXCEPT !.timer = "fired"], AbortError)
                 ELSE AfterJson([@ EXCEPT !.timer = "fired"], Aborted)]
  /\ UNCHANGED <<Traversal, client, parked>>

\* The body arrives (or turns out not to be JSON) and response.json() settles.
JsonSettles(c, data) ==
  /\ calls[c].pc \in {"json400", "jsonErr", "jsonOk"}
  /\ calls' = [calls EXCEPT ![c] = AfterJson(@, data)]
  /\ UNCHANGED <<Traversal, client, parked>>

\* Time passes for a call that has not settled; a due timer fires first.
Tick(c) ==
  /\ InFlight(c)
  /\ calls[c].elapsed <= Timeout
  /\ ~(calls[c].timer = "pending" /\ calls[c].elapsed >= Timeout)
  /\ calls' = [calls EXCEPT ![c].elapsed = @ + 1]
  /\ UNCHANGED <<Traversal, client, parked>>

\* list(params) / search(params), called directly.
List(c, resource, params) ==
  /\ calls[c].pc = "unused"
  /\ calls' = [calls EXCEPT ![c] =
                 [Started("list", ListPath(resource),
                          Entries(ApiParams(resource, params)))
                    EXCEPT !.args = Obj(params)]]
  /\ UNCHANGED <<Traversal, client, parked>>

\* get(id), called directly.
GetById(c, resource, id) ==
  /\ calls[c].pc = "unused"
  /\ calls' = [calls EXCEPT ![c] = Started("get", GetPath(resource, id), Undefined)]
  /\ UNCHANGED <<Traversal, client, parked>>

----------------------------------------------------------------------------
(* The pagination generators: iter of filings, insider, institutional and  *)
(* iterSearch of companies (the same code but for the list method called). *)
(*   gen.pc  none (iter not called) | start (created, nothing run yet) |   *)
(*           awaiting (await this.list(...)) | page (in or after           *)
(*           yield* response.items) | done | failed                        *)
(*           gen.requests: the calls the generator has made, in order      *)
(*   pending   next() calls not yet answered                               *)
(*   delivered the items the consumer has received, in order               *)
(* A second traversal on the same client waits in `parked` while the first *)
(* is stepped; Switch hands the turn to the other one, so that the steps   *)
(* of the two interleave in every order.                                   *)

NoGen ==
  [pc |-> "none", resource |-> "none", params |-> EmptyObject, limit |-> Undefined,
   cursor |-> Undefined, call |-> 0, items |-> <<>>, hasMore |-> Undefined,
   nextCursor |-> Undefined, error |-> Undefined, requests |-> <<>>]

\* { ...params, limit, cursor }
Spread(params, limit, cursor) ==
  [k \in DOMAIN params \cup {"limit", "cursor"} |->
     IF k = "limit" THEN limit ELSE IF k = "cursor" THEN cursor ELSE params[k]]

\* IterLimit with the page size of list: params.limit ?? 25
IterLimit_ListDefault(params) == Coalesce(Get(params, "limit"), Num(25))

\* const limit = params.limit ?? 100
IterLimit(params) == Coalesce(Get(params, "limit"), Num(100))

\* The argument of this.list(...) in the loop.
IterListParams(g) == Spread(g.params, g.limit, g.cursor)

\* Breaks testing the cursor instead of hasMore: if (!response.nextCursor) break
Breaks_OnMissingCursor(hasMore, nextCursor) == ~Truthy(nextCursor)

\* Breaks ending the loop also when the page names no cursor:
\* if (!response.hasMore || !response.nextCursor) break
Breaks_AlsoOnMissingCursor(hasMore, nextCursor) ==
  ~Truthy(hasMore) \/ ~Truthy(nextCursor)

\* if (!response.hasMore) break
Breaks(hasMore, nextCursor) == ~Truthy(hasMore)

\* AssignCursor keeping the old cursor: cursor = response.nextCursor ?? cursor
AssignCursor_KeepOld(cursor, nextCursor) == Coalesce(nextCursor, cursor)

\* cursor = response.nextCursor ?? undefined
AssignCursor(cursor, nextCursor) == Coalesce(nextCursor, Undefined)

\* YieldItem taking the page from its end.
YieldItem_Last(items) == items[Len(items)]

\* yield* response.items: the item handed over next, and what is left.
YieldItem(items) == Head(items)

\* A generator runs only to answer a next() call.
Demanded == pending > 0

\* MayRequest fetching the next page ahead, while items of the page are left.
MayRequest_Prefetch(g) ==
  /\ Demanded
  /\ \/ g.pc = "start"
     \/ g.pc = "page" /\ ~Breaks(g.hasMore, g.nextCursor)

\* The generator may go on to `await this.list(...)`: at its start, or when it
\* is resumed after the last item of a page whose hasMore is set.
MayRequest(g) ==
  /\ Demanded
  /\ \/ g.pc = "start"
     \/ g.pc = "page" /\ g.items = <<>> /\ ~Breaks(g.hasMore, g.nextCursor)

\* The call ids not used yet; a request takes the least.
FreeIds == {c \in CallIds : calls[c].pc = "unused"}
NextId == CHOOSE c \in FreeIds : \A d \in FreeIds : c <= d

\* iter(params) / iterSearch(params): creates the generator; runs none of it.
Iter(resource, params) ==
  /\ gen.pc = "none"
  /\ gen' = [NoGen EXCEPT !.pc = "start", !.resource = resource, !.params = params,
                          !.limit = IterLimit(params)]
  /\ UNCHANGED <<calls, pending, delivered, client, parked>>

\* The consumer calls next().
Pull ==
  /\ gen.pc \notin {"none", "done", "failed"}
  /\ pending < MaxPending
  /\ pending' = pending + 1
  /\ UNCHANGED <<calls, gen, delivered, client, parked>>

\* IterRequest writing into the caller's object instead of spreading it:
\* params.limit = limit; params.cursor = cursor; this.list(params)
IterRequest_WritesBack ==
  /\ MayRequest(gen)
  /\ FreeIds # {}
  /\ LET g == IF gen.pc = "start" THEN gen
              ELSE [gen EXCEPT !.cursor = AssignCursor(@, gen.nextCursor)]
     IN /\ calls' = [calls EXCEPT ![NextId] =
                       [Started("iter", ListPath(g.resource),
                                Entries(ApiParams(g.resource, IterListParams(g))))
                          EXCEPT !.args = Obj(IterListParams(g))]]
        /\ gen' = [g EXCEPT !.pc = "awaiting", !.call = NextId,
                            !.requests = Append(@, NextId),
                            !.params = IterListParams(g)]
  /\ UNCHANGED <<pending, delivered, client, parked>>

\* filings.ts:89-93 and 96-98 then 93: the generator reaches `await this.list`.
IterRequest ==
  /\ MayRequest(gen)
  /\ FreeIds # {}
  /\ LET g == IF gen.pc = "start" THEN gen
              ELSE [gen EXCEPT !.cursor = AssignCursor(@, gen.nextCursor)]
     IN /\ calls' = [calls EXCEPT ![NextId] =
                       [Started("iter", ListPath(g.resource),
                                Entries(ApiParams(g.resource, IterListParams(g))))
                          EXCEPT !.args = Obj(IterListParams(g))]]
        /\ gen' = [g EXCEPT !.pc = "awaiting", !.call = NextId,
                            !.requests = Append(@, NextId)]
  /\ UNCHANGED <<pending, delivered, client, parked>>

\* IterReceive with list awaited inside a try whose catch throws an error of the
\* generator's own making.
IterReceive_Wraps ==
  /\ gen.pc = "awaiting"
  /\ calls[gen.call].pc = "settled"
  /\ LET out == calls[gen.call].outcome
     IN IF ~out.ok
          THEN /\ gen' = [gen EXCEPT !.pc = "failed",
                                     !.error = APIError(Str(<<"Pagination failed">>),
                                                        Undefined, Undefined)]
               /\ pending' = 0
        ELSE IF out.value.t # "object" \/ Get(out.value.v, "items").t # "array"
          THEN /\ gen' = [gen EXCEPT !.pc = "failed", !.error = TypeError]
               /\ pending' = 0
        ELSE /\ gen' = [gen EXCEPT !.pc = "page",
                                   !.items = Get(out.value.v, "items").v,
                                   !.hasMore = Get(out.value.v, "hasMore"),
                                   !.nextCursor = Get(out.value.v, "nextCursor")]
             /\ pending' = pending
  /\ UNCHANGED <<calls, delivered, client, parked>>

\* filings.ts:93-94: list settled; on a page the generator enters yield*.
IterReceive ==
  /\ gen.pc = "awaiting"
  /\ calls[gen.call].pc = "settled"
  /\ LET out == calls[gen.call].outcome
     IN IF ~out.ok
          THEN /\ gen' = [gen EXCEPT !.pc = "failed", !.error = out.error]
               /\ pending' = 0
        ELSE IF out.value.t # "object" \/ Get(out.value.v, "items").t # "array"
          THEN /\ gen' = [gen EXCEPT !.pc = "failed", !.error = TypeError]
               /\ pending' = 0
        ELSE /\ gen' = [gen EXCEPT !.pc = "page",
                                   !.items = Get(out.value.v, "items").v,
                                   !.hasMore = Get(out.value.v, "hasMore"),
                                   !.nextCursor = Get(out.value.v, "nextCursor")]
             /\ pending' = pending
  /\ UNCHANGED <<calls, delivered, client, parked>>

\* filings.ts:94: yield* hands the consumer the next item of the page.
IterYield ==
  /\ gen.pc = "page"
  /\ gen.items # <<>>
  /\ Demanded
  /\ delivered' = Append(delivered, YieldItem(gen.items))
  /\ gen' = [gen EXCEPT !.items = Tail(@)]
  /\ pending' = pending - 1
  /\ UNCHANGED <<calls, client, parked>>

\* filings.ts:96: break; the generator returns and every waiting next() gets done.
IterBreak ==
  /\ gen.pc = "page"
  /\ gen.items = <<>>
  /\ Demanded
  /\ Breaks(gen.hasMore, gen.nextCursor)
  /\ gen' = [gen EXCEPT !.pc = "done"]
  /\ pending' = 0
  /\ UNCHANGED <<calls, delivered, client, parked>>

\* A traversal nobody is stepping: its generator, its unanswered next() calls and
\* what its consumer has received.
Idle == [gen |-> NoGen, pending |-> 0, delivered |-> <<>>]

\* The traversal being stepped.
Active == [gen |-> gen, pending |-> pending, delivered |-> delivered]

\* The event loop turns from one consumer and its generator to the other.
Switch ==
  /\ gen' = parked.gen
  /\ pending' = parked.pending
  /\ delivered' = parked.delivered
  /\ parked' = Active
  /\ UNCHANGED <<calls, client>>

----------------------------------------------------------------------------
(* What the callers pass and what the server answers.                      *)

\* Page `c` of a traversal: n items, numbered within the page.
Page(c, n, hasMore, nextCursor) ==
  Obj([items |-> Arr([i \in 1..n |-> <<c, i>>]), hasMore |-> Bool(hasMore),
       nextCursor |-> nextCursor])

Cursors == {Undefined, Null, Str(<<"page2">>)}

Pages(c) ==
  {Page(c, n, h, nc) : n \in 0..MaxItems, h \in BOOLEAN, nc \in Cursors}

\* The iter / iterSearch calls tried: each resource, with and without parameters
\* (a cursor among them, which the type forbids and JavaScript allows).
\* What the server sends as the body of a page request: a page or something that
\* is not JSON after a success status, an error object after an error status.
IterBodies(c) ==
  IF calls[c].pc = "jsonOk" THEN Pages(c) \cup {Unparseable}
  ELSE {Obj([error |-> Str(<<"Internal error">>), code |-> Str(<<"INTERNAL">>)])}

IterCalls ==
  LET some == [limit |-> Num(10), cursor |-> Str(<<"stale">>),
               ticker |-> Str(<<"AAPL">>)]
  IN {<<"filings", EmptyObject>>, <<"insider", some>>,
      <<"institutional", EmptyObject>>, <<"companies", some>>}

ListParams == {EmptyObject, [limit |-> Num(10), ticker |-> Str(<<"AAPL">>)]}

\* Parameter objects that exercise the filters: arrays, renamed keys, values
\* that are null, undefined, empty, zero or false.
WireParams ==
  {EmptyObject,
   [limit |-> Num(10), status |-> Str(<<"final">>),
    forms |-> Arr(<< <<"10-K">>, <<"10-Q">>, <<"8-K">> >>),
    codes |-> Arr(<< <<"P">>, <<"S">> >>),
    cik |-> Num(320193), personCik |-> Num(1214156)],
   [limit |-> Null, ticker |-> Null, cik |-> Undefined, q |-> Str(<<>>),
    forms |-> Str(<<"10-K">>), codes |-> Arr(<<>>),
    derivative |-> Bool(FALSE), minValue |-> Num(0)]}

ApiKeys == {Str(<<"test_api_key">>), Str(<<"sk_live_", "9f2c">>)}

\* A page of one item that names a cursor of its own.
OwnPages(c) ==
  {Page(c, 1, h, Str(<<"after-">> \o ToDecimal(c))) : h \in BOOLEAN}

\* The iter call both of two concurrent traversals make.
ConcIterCalls == {<<"filings", [ticker |-> Str(<<"AAPL">>)]>>}

\* What the server sends as the body of a page request that may fail: after a
\* success status a page or something that is not JSON, after an error status
\* an error object or a connection that breaks.
FailBodies(c) ==
  IF calls[c].pc = "jsonOk"
    THEN {Page(c, n, h, Str(<<"page2">>)) : n \in 0..MaxItems, h \in BOOLEAN}
           \cup {Unparseable}
    ELSE {Obj([error |-> Str(<<"Internal error">>), code |-> Str(<<"INTERNAL">>)]),
          Broken("ECONNRESET")}

\* What the server sends a consumer that keeps pulling: after a success status a
\* page of one item, with or without more to come, with or without a cursor;
\* after an error status an error object.
PullBodies(c) ==
  IF calls[c].pc = "jsonOk"
    THEN {Page(c, 1, h, nc) : h \in BOOLEAN, nc \in {Undefined, Str(<<"page2">>)}}
    ELSE {Obj([error |-> Str(<<"Internal error">>), code |-> Str(<<"INTERNAL">>)])}

\* A page of one item.
WirePages(c) == {Page(c, 1, h, nc) : h \in BOOLEAN, nc \in {Null, Str(<<"page2">>)}}

GetIds == {Str(<<"0000320193-24-000123">>), Num(320193)}

ErrorBodies ==
  {Obj([k \in {} |-> Undefined]),
   Obj([error |-> Null]),
   Obj([error |-> Str(<<"Invalid parameter">>)]),
   Obj([code |-> Str(<<"INTERNAL">>)]),
   Obj([error |-> Str(<<"Internal error">>), code |-> Str(<<"INTERNAL">>)])}

Bodies == ErrorBodies \cup {Unparseable, Null, Broken("ECONNRESET")}

Statuses == {200, 400, 401, 404, 429, 500, 503}

HdrChars == {"0", "1", "7", "-", "x"}

\* response.headers.get("X-RateLimit-Reset"): null when the header is absent.
ResetHeaders ==
  {Null} \cup {Str(s) : s \in SeqsUpTo(HdrChars, MaxHdrLen)}
         \cup {Str(ToDecimal(1700000000))}

Causes == {"ECONNRESET", "ENOTFOUND"}

----------------------------------------------------------------------------
(* Specifications.                                                         *)

Init ==
  /\ calls = [c \in CallIds |-> Unused]
  /\ gen = NoGen
  /\ pending = 0
  /\ delivered = <<>>
  /\ client = EarningsFeed(Str(<<"test_api_key">>))
  /\ parked = Idle

\* One traversal, its consumer and the server, every page request answered
\* before its timer is due.
Next ==
  \/ \E ic \in IterCalls : Iter(ic[1], ic[2])
  \/ Pull
  \/ IterRequest
  \/ IterReceive
  \/ IterYield
  \/ IterBreak
  \/ \E c \in CallIds, st \in {200, 500} : FetchResponds(c, st, Null)
  \/ \E c \in CallIds : FetchFails(c, "ECONNRESET")
  \/ \E c \in CallIds : \E d \in IterBodies(c) : JsonSettles(c, d)

Spec == Init /\ [][Next]_vars

\* One direct call of list, search or get, against any response, with the clock.
DirectIds == {1}

NextReq ==
  \/ \E c \in DirectIds, r \in Resources, p \in ListParams : List(c, r, p)
  \/ \E c \in DirectIds, r \in {"filings", "companies"}, id \in GetIds : GetById(c, r, id)
  \/ \E c \in DirectIds, st \in Statuses, h \in ResetHeaders : FetchResponds(c, st, h)
  \/ \E c \in DirectIds, cause \in Causes : FetchFails(c, cause)
  \/ \E c \in DirectIds : TimerFires(c)
  \/ \E c \in DirectIds, d \in Bodies : JsonSettles(c, d)
  \/ \E c \in DirectIds : Tick(c)

SpecReq == Init /\ [][NextReq]_vars

\* Any client; one direct call and one traversal, every request answered with
\* success: what goes out on the wire.
InitWire ==
  /\ calls = [c \in CallIds |-> Unused]
  /\ gen = NoGen
  /\ pending = 0
  /\ delivered = <<>>
  /\ client \in {EarningsFeed(k) : k \in ApiKeys}
  /\ parked = Idle

NextWire ==
  \/ \E c \in DirectIds, r \in Resources, p \in WireParams : List(c, r, p)
  \/ \E c \in DirectIds, r \in {"filings", "companies"}, id \in GetIds : GetById(c, r, id)
  \/ \E ic \in IterCalls : Iter(ic[1], ic[2])
  \/ Pull
  \/ IterRequest
  \/ IterReceive
  \/ IterYield
  \/ IterBreak
  \/ \E c \in CallIds : FetchResponds(c, 200, Null)
  \/ \E c \in CallIds : \E d \in WirePages(c) : JsonSettles(c, d)

SpecWire == InitWire /\ [][NextWire]_vars

\* Two traversals consumed in interleaved fashion on one client, their page
\* requests in flight together, each with its clock while it waits for fetch.
NextConc ==
  \/ \E ic \in ConcIterCalls : Iter(ic[1], ic[2])
  \/ Pull
  \/ IterRequest
  \/ IterReceive
  \/ IterYield
  \/ IterBreak
  \/ Switch
  \/ \E c \in CallIds : FetchResponds(c, 200, Null)
  \/ \E c \in CallIds : FetchFails(c, "ECONNRESET")
  \/ \E c \in CallIds : TimerFires(c)
  \/ \E c \in CallIds : \E d \in OwnPages(c) : JsonSettles(c, d)
  \/ \E c \in CallIds : calls[c].pc = "fetch" /\ Tick(c)

SpecConc == Init /\ [][NextConc]_vars

\* One traversal whose page requests fail in every way _request can fail: by
\* status, by the network, by the timer, by the body.
NextFail ==
  \/ \E ic \in {x \in IterCalls : x[1] \in {"filings", "insider"}} : Iter(ic[1], ic[2])
  \/ Pull
  \/ IterRequest
  \/ IterReceive
  \/ IterYield
  \/ IterBreak
  \/ \E c \in CallIds, st \in {200, 400, 429, 500} : FetchResponds(c, st, Null)
  \/ \E c \in CallIds : FetchFails(c, "ECONNRESET")
  \/ \E c \in CallIds : TimerFires(c)
  \/ \E c \in CallIds : \E d \in FailBodies(c) : JsonSettles(c, d)
  \/ \E c \in CallIds : calls[c].pc = "fetch" /\ Tick(c)

SpecFail == Init /\ [][NextFail]_vars

\* One direct call under a clock that keeps going and a timer that fires when
\* it is due; the server answers, fails or stalls as it likes.
NextLive ==
  \/ \E c \in DirectIds, r \in Resources, p \in ListParams : List(c, r, p)
  \/ \E c \in DirectIds, r \in {"filings", "companies"}, id \in GetIds : GetById(c, r, id)
  \/ \E c \in DirectIds, st \in {200, 400, 500} : FetchResponds(c, st, Null)
  \/ \E c \in DirectIds : FetchFails(c, "ECONNRESET")
  \/ \E c \in DirectIds : TimerFires(c)
  \/ \E c \in DirectIds, d \in {Obj([error |-> Str(<<"Internal error">>)]), Unparseable} :
       JsonSettles(c, d)
  \/ \E c \in DirectIds : Tick(c)

SpecLive ==
  /\ Init
  /\ [][NextLive]_vars
  /\ \A c \in DirectIds : WF_vars(Tick(c)) /\ WF_vars(TimerFires(c))

\* A caller that either calls list twice, with the same object or another, or
\* runs one traversal; every request answered with success.
TwiceIds == {1, 2}

NextTwice ==
  \/ \E c \in TwiceIds, r \in {"filings", "insider"}, p \in WireParams :
       gen.pc = "none" /\ List(c, r, p)
  \/ \E ic \in IterCalls : (\A c \in CallIds : calls[c].pc = "unused") /\ Iter(ic[1], ic[2])
  \/ Pull
  \/ IterRequest
  \/ IterReceive
  \/ IterYield
  \/ IterBreak
  \/ \E c \in CallIds : FetchResponds(c, 200, Null)
  \/ \E c \in CallIds : \E d \in WirePages(c) : JsonSettles(c, d)

SpecTwice == Init /\ [][NextTwice]_vars

\* One traversal whose consumer keeps pulling, whose generator runs whenever it
\* can and whose page requests all settle.
ServerAnswers == \E c \in CallIds, st \in {200, 500} : FetchResponds(c, st, Null)

BodyArrives == \E c \in CallIds : \E d \in PullBodies(c) : JsonSettles(c, d)

NextPull ==
  \/ \E ic \in {x \in IterCalls : x[1] \in {"filings", "companies"}} : Iter(ic[1], ic[2])
  \/ Pull
  \/ IterRequest
  \/ IterReceive
  \/ IterYield
  \/ IterBreak
  \/ ServerAnswers
  \/ BodyArrives

SpecPull ==
  /\ Init
  /\ [][NextPull]_vars
  /\ WF_vars(Pull) /\ WF_vars(IterRequest) /\ WF_vars(IterReceive)
  /\ WF_vars(IterYield) /\ WF_vars(IterBreak)
  /\ WF_vars(ServerAnswers) /\ WF_vars(BodyArrives)

----------------------------------------------------------------------------
(* The claims.                                                             *)

Issued == {c \in CallIds : calls[c].pc # "unused"}
Settled(c) == calls[c].pc = "settled"
Failed(c) == Settled(c) /\ ~calls[c].outcome.ok
ErrorOf(c) == calls[c].outcome.error

\* Call c returned a page: an object whose items are an array.
GotPage(c) ==
  /\ Settled(c)
  /\ calls[c].outcome.ok
  /\ calls[c].outcome.value.t = "object"
  /\ Get(calls[c].outcome.value.v, "items").t = "array"

PageOf(c) == calls[c].outcome.value.v

\* The items of pages 1..n, in page order and in each page's order.
RECURSIVE ItemsUpTo(_)
ItemsUpTo(n) == IF n = 0 THEN <<>> ELSE ItemsUpTo(n - 1) \o PageOf(n).items.v

IsPrefix(a, b) == Len(a) <= Len(b) /\ SubSeq(b, 1, Len(a)) = a

HasKey(query, key) == \E i \in 1..Len(query) : query[i][1] = key

\* The values the query string carries under `key`, in order.
ValuesOf(query, key) ==
  LET at == SelectSeq(query, LAMBDA e : e[1] = key)
  IN [i \in 1..Len(at) |-> at[i][2]]

\* C1: a traversal pulled to its end has issued one request per page, every page
\* but the last had hasMore set and the last had not, and the consumer received
\* exactly the pages' items, in page order and in each page's item order.
C1_Concatenation ==
  gen.pc = "done" =>
    LET n == Cardinality(Issued)
    IN /\ Issued = 1..n
       /\ \A c \in 1..n : GotPage(c)
       /\ \A c \in 1..n : Truthy(Get(PageOf(c), "hasMore")) <=> c < n
       /\ delivered = ItemsUpTo(n)

\* The pages [A] (nextCursor "page2", hasMore) then [B] gave [A, B], with two
\* requests and no third.
C1_Witness ==
  /\ gen.pc = "done"
  /\ delivered = << <<1, 1>>, <<2, 1>> >>
  /\ GotPage(1) /\ PageOf(1).nextCursor = Str(<<"page2">>)
  /\ GotPage(2)
  /\ Issued = {1, 2}

\* C2: once a page with hasMore = false has been received, the traversal has
\* issued its last request, whatever the page's nextCursor.
C2_NoRequestAfterLastPage ==
  \A c \in CallIds :
    (GotPage(c) /\ ~Truthy(Get(PageOf(c), "hasMore"))) =>
      \A d \in CallIds : d > c => calls[d].pc = "unused"

\* A last page that carries a nextCursor, the traversal pulled to its end.
C2_Witness ==
  /\ gen.pc = "done"
  /\ \E c \in CallIds :
       /\ GotPage(c)
       /\ ~Truthy(Get(PageOf(c), "hasMore"))
       /\ Get(PageOf(c), "nextCursor").t = "string"
       /\ c < MaxCalls

\* C3: the first request carries no cursor; request n+1 carries, once and as it
\* is, the nextCursor of page n, and no cursor when that is absent or null.
C3_CursorThreading ==
  \A c \in Issued :
    IF c = 1 THEN ~HasKey(calls[c].query, "cursor")
    ELSE /\ GotPage(c - 1)
         /\ LET nc == Get(PageOf(c - 1), "nextCursor")
            IN IF nc.t = "string"
                 THEN ValuesOf(calls[c].query, "cursor") = <<nc.v>>
                 ELSE ~HasKey(calls[c].query, "cursor")

\* The caller passed a cursor, page 1 named "page2", page 2 named no cursor, and
\* the third request is out.
C3_Witness ==
  /\ "cursor" \in DOMAIN gen.params
  /\ 3 \in Issued
  /\ Get(PageOf(1), "nextCursor") = Str(<<"page2">>)
  /\ Get(PageOf(2), "nextCursor").t \in {"undefined", "null"}

\* C4: no request before the first next(); a request is in flight only while a
\* next() is unanswered; at most one is in flight; and request n+1 is issued
\* only after every item of pages 1..n has been delivered.
C4_PullDrivenSequential ==
  /\ gen.pc \in {"none", "start"} => Issued = {}
  /\ \A c \in CallIds : InFlight(c) => pending > 0
  /\ Cardinality({c \in CallIds : InFlight(c)}) <= 1
  /\ \A c \in Issued :
       c > 1 => /\ \A d \in 1..(c - 1) : GotPage(d)
                /\ IsPrefix(ItemsUpTo(c - 1), delivered)

\* The second request in flight, the two items of page 1 delivered before it.
C4_Witness ==
  /\ InFlight(2)
  /\ GotPage(1)
  /\ Len(PageOf(1).items.v) = 2
  /\ delivered = PageOf(1).items.v
  /\ pending > 0

\* C5: a response with status 401 fails the call with an AuthenticationError,
\* whatever its headers, and the body is never read.
C5_Status401 ==
  \A c \in CallIds :
    calls[c].status = 401 =>
      /\ Failed(c)
      /\ ErrorOf(c).name = "AuthenticationError"
      /\ ~calls[c].bodyRead

\* A 401 that came with an X-RateLimit-Reset header.
C5_Witness ==
  \E c \in CallIds :
    /\ calls[c].status = 401
    /\ calls[c].resetHdr.t = "string"
    /\ Settled(c)

\* C6: a response with status 404 fails the call with a NotFoundError whose
\* message contains the path that was requested.
C6_Status404 ==
  \A c \in CallIds :
    calls[c].status = 404 =>
      /\ Failed(c)
      /\ ErrorOf(c).name = "NotFoundError"
      /\ Contains(ErrorOf(c).message, calls[c].path)

\* A 404 for get(id), whose path ends in the id.
C6_Witness ==
  \E c \in CallIds :
    /\ calls[c].status = 404
    /\ calls[c].by = "get"
    /\ Settled(c)
    /\ Len(calls[c].path) > 1

RECURSIVE Pow10(_)
Pow10(k) == IF k = 0 THEN 1 ELSE 10 * Pow10(k - 1)

\* The integers a header of at most MaxHdrLen characters can hold, and the
\* documented example.
ResetIntegers ==
  ((1 - Pow10(MaxHdrLen - 1))..(Pow10(MaxHdrLen) - 1)) \cup {1700000000}

\* The decimal numeral of an integer.
Numeral(n) == IF n < 0 THEN <<"-">> \o ToDecimal(0 - n) ELSE ToDecimal(n)

\* C7: a response with status 429 fails the call with a RateLimitError; its
\* resetAt is n when the header holds the integer n, and undefined when the
\* header is absent.
C7_Status429 ==
  \A c \in CallIds :
    calls[c].status = 429 =>
      /\ Failed(c)
      /\ ErrorOf(c).name = "RateLimitError"
      /\ calls[c].resetHdr.t = "null" => ErrorOf(c).resetAt.t = "undefined"
      /\ \A n \in ResetIntegers :
           (calls[c].resetHdr.t = "string" /\ calls[c].resetHdr.v = Numeral(n)) =>
             (ErrorOf(c).resetAt.t = "number" /\ ErrorOf(c).resetAt.v = n)

\* A 429 with X-RateLimit-Reset: 1700000000.
C7_Witness ==
  \E c \in CallIds :
    /\ calls[c].status = 429
    /\ calls[c].resetHdr = Str(ToDecimal(1700000000))
    /\ Settled(c)

\* C8: a response with status 400 and a JSON object as body fails the call with
\* a ValidationError: its message is the body's `error` when that is there, and
\* "Invalid request" when it is absent (or null).
C8_Status400 ==
  \A c \in CallIds :
    (Settled(c) /\ calls[c].status = 400 /\ calls[c].body.t = "object") =>
      /\ Failed(c)
      /\ ErrorOf(c).name = "ValidationError"
      /\ LET e == Get(calls[c].body.v, "error")
         IN /\ e.t = "string" => ErrorOf(c).message = e.v
            /\ e.t \in {"undefined", "null"} =>
                 ErrorOf(c).message = <<"Invalid request">>

\* A 400 with the body {"error": "Invalid parameter"}.
C8_Witness ==
  \E c \in CallIds :
    /\ Settled(c)
    /\ calls[c].status = 400
    /\ calls[c].body = Obj([error |-> Str(<<"Invalid parameter">>)])

\* C9: any other status s >= 400 fails the call with an APIError of statusCode s;
\* with a JSON object as body its message and code are the body's `error` and
\* `code`; with a body that is not JSON its message is "HTTP s" and it has no code.
C9_OtherStatus ==
  \A c \in CallIds :
    (Settled(c) /\ calls[c].status >= 400
       /\ calls[c].status \notin {400, 401, 404, 429}) =>
      /\ Failed(c)
      /\ ErrorOf(c).name = "APIError"
      /\ ErrorOf(c).statusCode.t = "number"
      /\ ErrorOf(c).statusCode.v = calls[c].status
      /\ calls[c].body.t = "object" =>
           /\ Get(calls[c].body.v, "error").t = "string" =>
                ErrorOf(c).message = Get(calls[c].body.v, "error").v
           /\ ErrorOf(c).code = Get(calls[c].body.v, "code")
      /\ calls[c].body.t = "unparseable" =>
           /\ ErrorOf(c).message = <<"HTTP ">> \o ToDecimal(calls[c].status)
           /\ ErrorOf(c).code.t = "undefined"

\* A 500 with the body {"error": "Internal error", "code": "INTERNAL"}.
C9_Witness ==
  \E c \in CallIds :
    /\ Settled(c)
    /\ calls[c].status = 500
    /\ calls[c].body =
         Obj([error |-> Str(<<"Internal error">>), code |-> Str(<<"INTERNAL">>)])
    /\ ErrorOf(c).code = Str(<<"INTERNAL">>)

\* C10: a call that had not settled when its timeout elapsed is abandoned: it
\* has failed with APIError 408 "Request timeout", or its timer is due and about
\* to abort it, at whatever stage the call is.
C10_TimeoutAtAnyStage ==
  \A c \in CallIds :
    calls[c].elapsed >= Timeout =>
      \/ /\ Failed(c)
         /\ ErrorOf(c).name = "APIError"
         /\ ErrorOf(c).statusCode = Num(408)
         /\ ErrorOf(c).message = <<"Request timeout">>
      \/ InFlight(c) /\ calls[c].timer = "pending"

\* C11: a call of list, search or get invokes fetch exactly once, whatever its
\* outcome: once it is issued the count is one and stays one after any status,
\* after a timeout and after a network failure.
C11_ExactlyOneRequest ==
  \A c \in CallIds :
    /\ calls[c].pc = "unused" => calls[c].fetches = 0
    /\ calls[c].pc # "unused" => calls[c].fetches = 1

\* A direct call that failed on a 503.
C11_Witness ==
  \E c \in CallIds :
    /\ calls[c].by \in {"list", "get"}
    /\ Failed(c)
    /\ calls[c].status = 503

\* "MAJOR.MINOR.PATCH" with one digit each, as tokens.
IsVersion(s) ==
  /\ Len(s) = 5
  /\ IsDigit(s[1]) /\ s[2] = "." /\ IsDigit(s[3]) /\ s[4] = "." /\ IsDigit(s[5])

\* C12: every request a client issues (list, search, get, every page request of
\* iter) carries Authorization: "Bearer " followed by the credential as it was
\* passed to the constructor, and User-Agent: "earningsfeed-node/<version>".
C12_Headers ==
  \A c \in Issued :
    /\ calls[c].headers["Authorization"] = <<"Bearer ">> \o client.apiKey.v
    /\ LET ua == calls[c].headers["User-Agent"]
       IN /\ Len(ua) > 1
          /\ Head(ua) = "earningsfeed-node/"
          /\ IsVersion(Tail(ua))

\* The second page request of a traversal, on a client with another credential.
C12_Witness ==
  /\ client.apiKey = Str(<<"sk_live_", "9f2c">>)
  /\ \E c \in Issued : calls[c].by = "iter" /\ gen.cursor.t = "string"
  /\ \E c \in Issued : calls[c].by \in {"list", "get"}

\* The parameters a caller may pass to list (search) of the resource at `path`.
UserKeys(path) ==
  CASE path = <<"/api/v1/filings">> ->
         {"forms", "ticker", "cik", "status", "startDate", "endDate", "q",
          "limit", "cursor"}
    [] path = <<"/api/v1/insider/transactions">> ->
         {"ticker", "cik", "personCik", "direction", "codes", "derivative",
          "minValue", "startDate", "endDate", "limit", "cursor"}
    [] path = <<"/api/v1/institutional/holdings">> ->
         {"cik", "ticker", "cusip", "managerCik", "minValue", "putCall",
          "reportPeriod", "limit", "cursor"}
    [] OTHER -> {"q", "ticker", "sicCode", "state", "limit", "cursor"}

\* The name a parameter has in the query string.
WireName(path, key) ==
  IF path = <<"/api/v1/institutional/holdings">> /\ key = "cik" THEN "companyCik"
  ELSE IF path = <<"/api/v1/insider/transactions">> /\ key = "personCik"
    THEN "insiderCik"
  ELSE key

\* The elements of an array with a comma between neighbours.
RECURSIVE Joined(_)
Joined(a) ==
  IF Len(a) = 0 THEN <<>>
  ELSE IF Len(a) = 1 THEN a[1]
  ELSE Joined(SubSeq(a, 1, Len(a) - 1)) \o <<",">> \o a[Len(a)]

\* The text of a string, number or boolean.
Text(value) ==
  CASE value.t = "string" -> value.v
    [] value.t = "number" -> Numeral(value.v)
    [] value.t = "boolean" -> IF value.v THEN <<"true">> ELSE <<"false">>

Supplied(value) == value.t \notin {"undefined", "null"}

\* C13: list (search) sends every filter the caller supplied under its wire name
\* with its value; an array is sent as its elements joined by ",", in order;
\* institutional cik goes out as companyCik and insider personCik as insiderCik.
C13_WireNames ==
  \A c \in Issued :
    calls[c].by = "list" =>
      LET p == calls[c].args.v
          q == calls[c].query
          path == calls[c].path
      IN /\ \A k \in DOMAIN p \cap UserKeys(path) :
              Supplied(p[k]) =>
                ValuesOf(q, WireName(path, k)) =
                  << IF p[k].t = "array" THEN Joined(p[k].v) ELSE Text(p[k]) >>
         /\ (path = <<"/api/v1/filings">>
               /\ Get(p, "forms") = Arr(<< <<"10-K">>, <<"10-Q">>, <<"8-K">> >>)) =>
              ValuesOf(q, "forms") = << <<"10-K", ",", "10-Q", ",", "8-K">> >>
         /\ path = <<"/api/v1/institutional/holdings">> => ~HasKey(q, "cik")
         /\ path = <<"/api/v1/insider/transactions">> => ~HasKey(q, "personCik")

\* insider.list({codes: ["P", "S"], personCik: 1214156, ...}) went out.
C13_Witness ==
  \E c \in Issued :
    /\ calls[c].by = "list"
    /\ calls[c].path = <<"/api/v1/insider/transactions">>
    /\ Get(calls[c].args.v, "personCik").t = "number"
    /\ Get(calls[c].args.v, "codes") = Arr(<< <<"P">>, <<"S">> >>)
    /\ ValuesOf(calls[c].query, "codes") = << <<"P", ",", "S">> >>
    /\ HasKey(calls[c].query, "insiderCik")

\* The resource whose list (search) path is `path`.
ResourceAt(path) == CHOOSE r \in Resources : ListPath(r) = path

\* The params argument _request got for call c: the apiParams object of list
\* (search), nothing for get.
ParamsOf(c) ==
  IF calls[c].by = "get" THEN Undefined
  ELSE Entries(ApiParams(ResourceAt(calls[c].path), calls[c].args.v))

\* C14: of the entries of the params object of a request, one whose value is
\* undefined or null is not in the query string at all; every other one is there
\* once, with the text of its value; and the query string holds nothing else.
C14_NullsOmitted ==
  \A c \in Issued :
    LET e == ParamsOf(c)
        q == calls[c].query
    IN IF e.t = "undefined" THEN q = <<>>
       ELSE /\ \A i \in 1..Len(e.v) :
                 IF Supplied(e.v[i][2])
                   THEN ValuesOf(q, e.v[i][1]) = << Text(e.v[i][2]) >>
                   ELSE ~HasKey(q, e.v[i][1])
            /\ \A j \in 1..Len(q) : \E i \in 1..Len(e.v) : e.v[i][1] = q[j][1]

\* insider.list({ticker: null, cik: undefined, derivative: false, minValue: 0,
\* ...}) went out.
C14_Witness ==
  \E c \in Issued :
    /\ calls[c].by = "list"
    /\ calls[c].path = <<"/api/v1/insider/transactions">>
    /\ Get(calls[c].args.v, "ticker").t = "null"
    /\ "cik" \in DOMAIN calls[c].args.v
    /\ ~HasKey(calls[c].query, "ticker")
    /\ ValuesOf(calls[c].query, "derivative") = << <<"false">> >>
    /\ ValuesOf(calls[c].query, "minValue") = << <<"0">> >>

\* What the caller passed to the operation behind request c: the argument of list
\* (search), or of iter (iterSearch) for a page request.
CallerParams(c) == IF calls[c].by = "iter" THEN gen.params ELSE calls[c].args.v

\* C15: a request of list / search carries limit=25 and a page request of iter /
\* iterSearch limit=100 when the caller left limit unset; the caller's limit goes
\* out unchanged on every request; a filings request, of list or of iter,
\* carries status=all when the caller left status unset.
C15_Defaults ==
  \A c \in Issued :
    calls[c].by \in {"list", "iter"} =>
      LET p == CallerParams(c)
          q == calls[c].query
      IN /\ ValuesOf(q, "limit") =
              << IF Supplied(Get(p, "limit")) THEN Text(Get(p, "limit"))
                 ELSE IF calls[c].by = "list" THEN <<"2", "5">>
                 ELSE <<"1", "0", "0">> >>
         /\ (calls[c].path = <<"/api/v1/filings">> /\ ~Supplied(Get(p, "status"))) =>
              ValuesOf(q, "status") = << <<"all">> >>

\* The second page request of filings.iter() called without parameters.
C15_Witness ==
  \E c \in Issued :
    /\ calls[c].by = "iter"
    /\ calls[c].path = <<"/api/v1/filings">>
    /\ gen.params = EmptyObject
    /\ HasKey(calls[c].query, "cursor")
    /\ ValuesOf(calls[c].query, "limit") = << <<"1", "0", "0">> >>

\* C16: when the request for page k of a traversal has failed, the pull that
\* asked for it is still waiting or has failed with that very error; the
\* consumer holds exactly the items of pages 1..k-1, in order, and gets no more;
\* and the traversal has issued no request after k.
C16_IterFailure ==
  \A k \in Issued :
    (calls[k].by = "iter" /\ Failed(k)) =>
      /\ gen.call = k
      /\ \/ gen.pc = "awaiting" /\ pending > 0
         \/ gen.pc = "failed" /\ gen.error = ErrorOf(k) /\ pending = 0
      /\ \A d \in 1..(k - 1) : GotPage(d)
      /\ delivered = ItemsUpTo(k - 1)
      /\ \A d \in CallIds : d > k => calls[d].pc = "unused"

\* The second page request answered 500 after page 1 gave two items, and the
\* pull has failed with the APIError.
C16_Witness ==
  /\ gen.pc = "failed"
  /\ gen.call = 2
  /\ calls[2].status = 500
  /\ gen.error.name = "APIError"
  /\ gen.error.statusCode = Num(500)
  /\ Len(delivered) = 2
  /\ 3 \in CallIds /\ calls[3].pc = "unused"

\* The classes of errors.ts.
TypedErrors ==
  {"EarningsFeedError", "AuthenticationError", "RateLimitError", "NotFoundError",
   "ValidationError", "APIError"}

\* C17: a call whose fetch or body read was cut short by a network failure, not
\* by the timeout, fails with the value that failure rejected with: not an
\* APIError (no 408, no status code at all) nor any other class of errors.ts.
C17_NetworkFailure ==
  \A c \in Issued :
    calls[c].cause # "none" =>
      /\ Failed(c)
      /\ ErrorOf(c) = NetworkFailure(calls[c].cause)
      /\ ErrorOf(c).name \notin TypedErrors
      /\ ErrorOf(c).statusCode.t = "undefined"

\* C19: once a call has settled, with a payload or with any error, its timer is
\* not pending: it was cleared, or it has fired.
C19_TimerReleased ==
  \A c \in Issued :
    Settled(c) => calls[c].timer \in {"cleared", "fired"}

\* A call that failed on a network failure before any response, its timer
\* cleared by the catch block.
C19_Witness ==
  \E c \in Issued :
    /\ Failed(c)
    /\ calls[c].cause # "none"
    /\ calls[c].status = 0
    /\ calls[c].timer = "cleared"

\* C20: a response with status 429 whose X-RateLimit-Reset header is present and
\* holds no digit at all, so that no reading makes an integer of it, fails the
\* call with a RateLimitError whose resetAt is undefined.
C20_UnparsableResetOmitted ==
  \A c \in Issued :
    (/\ calls[c].status = 429
     /\ calls[c].resetHdr.t = "string"
     /\ \A i \in 1..Len(calls[c].resetHdr.v) : ~IsDigit(calls[c].resetHdr.v[i])) =>
      /\ Failed(c)
      /\ ErrorOf(c).name = "RateLimitError"
      /\ ErrorOf(c).resetAt.t = "undefined"

\* The items of the pages that the calls `ids` returned, in the order of `ids`.
RECURSIVE ItemsOf(_)
ItemsOf(ids) ==
  IF ids = <<>> THEN <<>>
  ELSE (IF GotPage(Head(ids)) THEN PageOf(Head(ids)).items.v ELSE <<>>)
         \o ItemsOf(Tail(ids))

TimedOut(c) ==
  /\ Failed(c)
  /\ ErrorOf(c).name = "APIError"
  /\ ErrorOf(c).statusCode.t = "number"
  /\ ErrorOf(c).statusCode.v = 408

\* What has happened to call c is what its own timer and its own response did.
OwnFate(c) ==
  /\ calls[c].timer = "fired" => calls[c].elapsed >= Timeout
  /\ TimedOut(c) => calls[c].timer = "fired"
  /\ (Failed(c) /\ ~TimedOut(c)) =>
       /\ calls[c].cause # "none"
       /\ ErrorOf(c) = NetworkFailure(calls[c].cause)
  /\ (Settled(c) /\ ~Failed(c)) =>
       /\ calls[c].status = 200
       /\ calls[c].outcome.value = calls[c].body
       /\ GotPage(c)
       /\ \A i \in 1..Len(PageOf(c).items.v) : PageOf(c).items.v[i][1] = c

\* Traversal t has asked for its pages with its own cursors and handed its
\* consumer items of its own pages only.
OwnPagesOnly(t) ==
  LET ids == t.gen.requests
  IN /\ \A i \in 1..Len(ids) :
          /\ calls[ids[i]].by = "iter"
          /\ Get(calls[ids[i]].args.v, "ticker") = Get(t.gen.params, "ticker")
          /\ IF i = 1 THEN ~HasKey(calls[ids[i]].query, "cursor")
             ELSE /\ GotPage(ids[i - 1])
                  /\ ValuesOf(calls[ids[i]].query, "cursor") =
                       << Get(PageOf(ids[i - 1]), "nextCursor").v >>
     /\ IsPrefix(t.delivered, ItemsOf(ids))
     /\ t.gen.pc = "failed" =>
          (Len(ids) > 0 /\ Failed(ids[Len(ids)])
             /\ t.gen.error = ErrorOf(ids[Len(ids)]))

\* C18: with the requests of two interleaved traversals in flight together, what
\* happens to each request is the doing of its own timer and its own response
\* alone, no request belongs to both traversals, and each traversal threads its
\* own cursors and delivers its own pages.
C18_NoInterference ==
  /\ \A c \in Issued : OwnFate(c)
  /\ OwnPagesOnly(Active)
  /\ OwnPagesOnly(parked)
  /\ \A i \in 1..Len(gen.requests) : \A j \in 1..Len(parked.gen.requests) :
       gen.requests[i] # parked.gen.requests[j]

\* One traversal's first request timed out while the other's was in flight; the
\* other then received its page, delivered its item and sent its second request
\* with its own cursor.
C18_Witness ==
  /\ Len(parked.gen.requests) = 1
  /\ TimedOut(parked.gen.requests[1])
  /\ parked.gen.pc = "failed"
  /\ Len(gen.requests) = 2
  /\ gen.requests[1] > parked.gen.requests[1]
  /\ Len(delivered) = 1
  /\ HasKey(calls[gen.requests[2]].query, "cursor")
  /\ calls[gen.requests[1]].elapsed > 0

\* C21: a response with status 400 whose body is not JSON fails the call with
\* the parse failure response.json() rejected with: not a ValidationError, not
\* an APIError, no status code.
C21_ParseFailure400 ==
  \A c \in Issued :
    (Settled(c) /\ calls[c].status = 400 /\ calls[c].body.t = "unparseable") =>
      /\ Failed(c)
      /\ ErrorOf(c) = SyntaxError
      /\ ErrorOf(c).name \notin TypedErrors
      /\ ErrorOf(c).statusCode.t = "undefined"

\* A 400 whose body was read and was not JSON.
C21_Witness ==
  \E c \in Issued :
    /\ Settled(c)
    /\ calls[c].status = 400
    /\ calls[c].bodyRead
    /\ calls[c].body.t = "unparseable"

\* C22: the timeout is per request. A page request that waits for fetch with
\* less than the configured duration behind it has its own timer pending; a timer
\* fires, and a request fails with 408, only when that request's own wait has
\* reached the duration; so a traversal none of whose requests waited that long
\* has not failed with 408, however long the waits add up to.
C22_TimeoutPerRequest ==
  /\ \A c \in Issued :
       calls[c].by = "iter" =>
         /\ (calls[c].pc = "fetch" /\ calls[c].elapsed < Timeout) =>
              calls[c].timer = "pending"
         /\ (calls[c].timer = "fired" \/ TimedOut(c)) => calls[c].elapsed >= Timeout
  /\ (\A c \in Issued : calls[c].elapsed < Timeout) =>
       ~(/\ gen.pc = "failed"
         /\ gen.error.name = "APIError"
         /\ gen.error.statusCode.t = "number"
         /\ gen.error.statusCode.v = 408)

\* A traversal that ended after waits adding up to more than the timeout, each
\* request having waited less than it.
C22_Witness ==
  /\ gen.pc = "done"
  /\ SumElapsed(MaxCalls) > Timeout
  /\ \A c \in Issued : calls[c].elapsed > 0 /\ calls[c].elapsed < Timeout

\* C23: with time passing and a due timer firing, every call of list, search or
\* get that was issued eventually settles, whatever the server does.
C23_EventuallySettles ==
  \A c \in DirectIds : (calls[c].pc # "unused") ~> Settled(c)

\* A query string without its cursor.
WithoutCursor(query) == SelectSeq(query, LAMBDA e : e[1] # "cursor")

\* Every page request of the traversal carries what its first one carried, the
\* cursor apart.
SameWire ==
  \A i \in 1..Len(gen.requests) :
    WithoutCursor(calls[gen.requests[i]].query) =
      WithoutCursor(calls[gen.requests[1]].query)

\* Two calls of list of one resource with equal objects sent equal queries.
SameQueryTwice ==
  \A c, d \in Issued :
    (/\ calls[c].by = "list" /\ calls[d].by = "list"
     /\ calls[c].path = calls[d].path
     /\ calls[c].args = calls[d].args) =>
      calls[c].query = calls[d].query

\* C24: no step changes the params object a traversal was given; after every
\* step all page requests of the traversal carry the same parameters and
\* values, the cursor apart; and two calls of list with the same object have
\* sent the same query.
C24_ParamsUntouched ==
  [][/\ gen.pc # "none" => gen'.params = gen.params
     /\ SameWire'
     /\ SameQueryTwice']_vars

\* A traversal called with a limit, a ticker and a stale cursor, its second
\* request out with the cursor of page 1.
C24_Witness ==
  /\ Len(gen.requests) = 2
  /\ Get(gen.params, "cursor") = Str(<<"stale">>)
  /\ ValuesOf(calls[gen.requests[2]].query, "cursor") = << <<"page2">> >>
  /\ ~HasKey(calls[gen.requests[1]].query, "cursor")
  /\ ValuesOf(calls[gen.requests[2]].query, "ticker") = << <<"AAPL">> >>

Ended == gen.pc \in {"done", "failed"}

LastPageSeen ==
  \E c \in Issued : GotPage(c) /\ ~Truthy(Get(PageOf(c), "hasMore"))

SomeFailed == \E c \in Issued : Failed(c)

\* C25: a traversal has ended only if a page had hasMore = false or a page
\* request failed; once a page with hasMore = false has arrived or a request has
\* failed, the traversal eventually ends; and a traversal that was started
\* eventually issues one more request, as long as the model has a call left,
\* unless it ends: against pages that all have hasMore = true, with or without
\* nextCursor, it therefore never ends and keeps issuing requests.
C25_EndsIffLastPage ==
  /\ [](Ended => (LastPageSeen \/ SomeFailed))
  /\ (LastPageSeen \/ SomeFailed) ~> Ended
  /\ \A n \in 0..(MaxCalls - 1) :
       (gen.pc # "none" /\ Cardinality(Issued) = n) ~>
         (Cardinality(Issued) > n \/ Ended)

\* Every call of the model used, the pages so far all with hasMore = true, one
\* of them without nextCursor, and the traversal still going.
C25_Witness ==
  /\ Cardinality(Issued) = MaxCalls
  /\ ~Ended
  /\ ~LastPageSeen
  /\ ~SomeFailed
  /\ \E c \in Issued : GotPage(c) /\ Get(PageOf(c), "nextCursor").t = "undefined"
  /\ \E c \in Issued : GotPage(c) /\ Get(PageOf(c), "nextCursor").t = "string"

====
